---- MODULE Spec2Model ----
(***************************************************************************)
(* FacilityService (services/facility.service.ts): the record store, the   *)
(* id map, the word-level name index, the inverted amenity index, and the  *)
(* queries searchByName, getById, filterByAmenities and getCount; the      *)
(* evaluation of the module that constructs and exports the service; and   *)
(* the facility router (routes/facility.routes.ts) behind authMiddleware.  *)
(*                                                                         *)
(* A JavaScript string is a sequence of one-character strings, so that     *)
(* toLowerCase, trim, split and startsWith are computed, not assumed.      *)
(* A JavaScript Set or Map is a duplicate-free sequence in insertion       *)
(* order, because both iterate in insertion order and the order of the     *)
(* returned arrays depends on it.                                          *)
(***************************************************************************)
EXTENDS Integers, Sequences, FiniteSets, TLC

VARIABLES facilities, facilityIndex, nameIndex, amenityIndex, call, ret,
          ctor, exported, http, trace, inflight, proc

\* The fields of the FacilityService instance.
service == <<facilities, facilityIndex, nameIndex, amenityIndex>>

\* The evaluation of the module facility.service.ts: ctor is the position of
\* the constructor's loop (the record it is at and the index it writes next),
\* exported tells whether the binding facilityService has been initialised.
loading == <<ctor, exported>>

\* What the calls of the service and the facility router leave alone: trace,
\* the index accesses of the query being answered when they are recorded;
\* inflight, the requests inside authMiddleware when several are handled at
\* once; proc, the Node process and its HTTP server.
outside == <<trace, inflight, proc>>

vars == <<service, call, ret, loading, http, outside>>

(***************************************************************************)
(* Bounds of the model.                                                    *)
(***************************************************************************)
MaxFacilities == 2
MaxQueryLen == 3
MaxLabels == 2

(***************************************************************************)
(* Sequences.                                                              *)
(***************************************************************************)
Range(s) == {s[i] : i \in DOMAIN s}

SeqsUpTo(S, n) == UNION {[1..k -> S] : k \in 0..n}

Contains(s, x) == \E i \in DOMAIN s : s[i] = x

\* Set.prototype.add on an insertion-ordered set.
SetAdd(s, x) == IF Contains(s, x) THEN s ELSE Append(s, x)

RECURSIVE SetAddAll(_, _)
\* src.forEach(id => dst.add(id))
SetAddAll(dst, src) ==
    IF src = <<>> THEN dst ELSE SetAddAll(SetAdd(dst, Head(src)), Tail(src))

\* Map.prototype.has / get / set on an insertion-ordered map of [key, val].
MapHas(m, k) == \E i \in DOMAIN m : m[i].key = k

MapGet(m, k) == m[CHOOSE i \in DOMAIN m : m[i].key = k].val

MapSet(m, k, v) ==
    IF MapHas(m, k)
    THEN [i \in DOMAIN m |-> IF m[i].key = k THEN [key |-> k, val |-> v] ELSE m[i]]
    ELSE Append(m, [key |-> k, val |-> v])

(***************************************************************************)
(* Strings.                                                                *)
(***************************************************************************)
IsSpace(c) == c = " "

UpperCase == {"A", "B", "P", "S"}

LowerChar(c) ==
    CASE c = "A" -> "a" [] c = "B" -> "b" [] c = "P" -> "p" [] c = "S" -> "s"
      [] OTHER -> c

\* String.prototype.toLowerCase
ToLowerCase(s) == [i \in DOMAIN s |-> LowerChar(s[i])]

RECURSIVE TrimStart(_)
TrimStart(s) == IF s # <<>> /\ IsSpace(Head(s)) THEN TrimStart(Tail(s)) ELSE s

RECURSIVE TrimEnd(_)
TrimEnd(s) ==
    IF s # <<>> /\ IsSpace(s[Len(s)]) THEN TrimEnd(SubSeq(s, 1, Len(s) - 1)) ELSE s

\* String.prototype.trim
Trim(s) == TrimEnd(TrimStart(s))

\* A startsWith that accepts the whole word only.
StartsWithWholeWord(s, p) == s = p

\* String.prototype.startsWith
StartsWith(s, p) == Len(p) <= Len(s) /\ SubSeq(s, 1, Len(p)) = p

\* The positions at which a maximal run of non-whitespace characters starts.
WordStarts(s) == {i \in DOMAIN s : ~IsSpace(s[i]) /\ (i = 1 \/ IsSpace(s[i - 1]))}

\* The position at which the run that starts at i ends.
WordEnd(s, i) ==
    CHOOSE j \in i..Len(s) :
        /\ \A k \in i..j : ~IsSpace(s[k])
        /\ (j = Len(s) \/ IsSpace(s[j + 1]))

\* The n-th run of non-whitespace characters, from the left.
NthWord(s, n) ==
    LET i == CHOOSE k \in WordStarts(s) :
                 Cardinality({j \in WordStarts(s) : j < k}) = n - 1
    IN  SubSeq(s, i, WordEnd(s, i))

\* String.prototype.split(/\s+/): the pieces between maximal whitespace runs,
\* the empty pieces at either end included.
SplitWs(s) ==
    (IF s = <<>> \/ IsSpace(s[1]) THEN << <<>> >> ELSE <<>>)
    \o [n \in 1..Cardinality(WordStarts(s)) |-> NthWord(s, n)]
    \o (IF s # <<>> /\ IsSpace(s[Len(s)]) THEN << <<>> >> ELSE <<>>)

\* .filter(w => w.length > 0)
NonEmptyOnly(ws) == SelectSeq(ws, LAMBDA w : Len(w) > 0)

RECURSIVE LexCmp(_, _)
\* Lexicographic comparison of two sequences of integers: -1, 0 or 1.
LexCmp(u, v) ==
    IF u = <<>> THEN (IF v = <<>> THEN 0 ELSE -1)
    ELSE IF v = <<>> THEN 1
    ELSE IF Head(u) < Head(v) THEN -1
    ELSE IF Head(u) > Head(v) THEN 1
    ELSE LexCmp(Tail(u), Tail(v))

\* Collation weights: whitespace sorts before letters, letters compare
\* without case first, and lower case precedes upper case on a tie.
PrimaryWeight(c) ==
    CASE c = " " -> 0
      [] c = "'" -> 1
      [] LowerChar(c) = "a" -> 2
      [] LowerChar(c) = "b" -> 3
      [] LowerChar(c) = "p" -> 4
      [] LowerChar(c) = "s" -> 5
      [] OTHER -> 6

TertiaryWeight(c) == IF c \in UpperCase THEN 1 ELSE 0

\* String.prototype.localeCompare
LocaleCompare(a, b) ==
    LET p == LexCmp([i \in DOMAIN a |-> PrimaryWeight(a[i])],
                    [i \in DOMAIN b |-> PrimaryWeight(b[i])])
    IN  IF p # 0 THEN p
        ELSE LexCmp([i \in DOMAIN a |-> TertiaryWeight(a[i])],
                    [i \in DOMAIN b |-> TertiaryWeight(b[i])])

(***************************************************************************)
(* The records of assets/facilities.json, read by the constructor.  The    *)
(* identifiers of one data file are distinct.                              *)
(***************************************************************************)
IdSeq == << <<"x">>, <<"y">>, <<"z">>, <<"w">> >>

IdPool == {IdSeq[i] : i \in 1..3}

NamePool == { <<"a">>, <<"A">>, <<"a", "b">>, <<"b", " ", "a">> }

AmenityListPool ==
    { <<>>, << <<"p">> >>, << <<"P">> >>, << <<"s">> >>, << <<"p">>, <<"s">> >> }

Location == [latitude |-> 0, longitude |-> 0]

Facility(id, name, amenities) ==
    [id |-> id, name |-> name, address |-> <<"1">> \o id,
     location |-> Location, facilities |-> amenities]

\* Data files whose names vary, the identifiers ascending or descending.
NameStores ==
    UNION { { [i \in 1..k |-> Facility(IdSeq[IF up THEN i ELSE k + 1 - i], ns[i],
                                       << <<"p">> >>)] :
                ns \in [1..k -> NamePool], up \in BOOLEAN } : k \in 0..MaxFacilities }

\* Data files whose amenity lists vary.
AmenityStores ==
    UNION { { [i \in 1..k |-> Facility(IdSeq[i], <<"a">>, ls[i])] :
                ls \in [1..k -> AmenityListPool] } : k \in 0..MaxFacilities }

Stores == NameStores \cup AmenityStores

\* Data files whose names and amenity lists both vary.
MixedPool ==
    { << <<"a">>, << <<"p">> >> >>,
      << <<"a", " ", "b">>, << <<"p">>, <<"s">> >> >>,
      << <<"b", " ", "a">>, << <<"s">> >> >>,
      << <<"A">>, << <<"P">> >> >> }

MixedStores ==
    UNION { { [i \in 1..k |-> Facility(IdSeq[i], ms[i][1], ms[i][2])] :
                ms \in [1..k -> MixedPool] } : k \in 0..MaxFacilities }

\* Candidates as a data file may hold them: the array is taken as it is
\* (facilitiesData as Facility[]), so a candidate may have an empty name, an
\* empty identifier, a latitude out of range, the identifier of an earlier
\* candidate, or punctuation inside its name.
CandidatePool ==
    { Facility(IdSeq[1], <<"a">>, << <<"p">> >>),
      Facility(IdSeq[1], <<"b">>, << <<"s">> >>),
      Facility(IdSeq[2], <<>>, << <<"p">> >>),
      Facility(<<>>, <<"a">>, << <<"p">> >>),
      [Facility(IdSeq[3], <<"a">>, << <<"p">> >>) EXCEPT !.location.latitude = 91],
      Facility(IdSeq[3], <<"a", "'", "b">>, <<>>) }

CandidateStores == SeqsUpTo(CandidatePool, MaxFacilities)

(***************************************************************************)
(* buildIndexes                                                            *)
(***************************************************************************)
\* tokenizeName
tokenizeName(name) ==
    LET normalized == ToLowerCase(name)
        words == NonEmptyOnly(SplitWs(normalized))
    IN  words

\* An index whose entry keeps only the identifier added last.
IndexAddReplacing(index, key, id) == MapSet(index, key, <<id>>)

\* if (!index.has(key)) index.set(key, new Set()); index.get(key).add(id)
IndexAdd(index, key, id) ==
    LET have == IF MapHas(index, key) THEN index ELSE MapSet(index, key, <<>>)
    IN  MapSet(have, key, SetAdd(MapGet(have, key), id))

RECURSIVE IndexTokens(_, _, _)
IndexTokens(index, tokens, id) ==
    IF tokens = <<>> THEN index
    ELSE IndexTokens(IndexAdd(index, Head(tokens), id), Tail(tokens), id)

RECURSIVE IndexAmenities(_, _, _)
IndexAmenities(index, amenities, id) ==
    IF amenities = <<>> THEN index
    ELSE IndexAmenities(IndexAdd(index, ToLowerCase(Head(amenities)), id),
                        Tail(amenities), id)

RECURSIVE buildIndexes(_, _)
\* The three indexes after the loop has processed fs, starting from idx.
buildIndexes(fs, idx) ==
    IF fs = <<>> THEN idx
    ELSE LET facility == Head(fs)
         IN  buildIndexes(Tail(fs),
                [facilityIndex |-> MapSet(idx.facilityIndex, facility.id, facility),
                 nameIndex |-> IndexTokens(idx.nameIndex, tokenizeName(facility.name),
                                           facility.id),
                 amenityIndex |-> IndexAmenities(idx.amenityIndex, facility.facilities,
                                                 facility.id)])

EmptyIndexes == [facilityIndex |-> <<>>, nameIndex |-> <<>>, amenityIndex |-> <<>>]

(***************************************************************************)
(* Values returned by the queries.                                         *)
(***************************************************************************)
Null == [kind |-> "null"]

Found(facility) == [kind |-> "facility", value |-> facility]

List(results) == [kind |-> "list", value |-> results]

Number(n) == [kind |-> "number", value |-> n]

\* { id: facility.id, name: facility.name, address: facility.address }
Projection(facility) ==
    [id |-> facility.id, name |-> facility.name, address |-> facility.address]

RECURSIVE ToResults(_, _)
\* for (const id of matchingIds) { const facility = facilityIndex.get(id);
\*   if (facility) results.push({...}) }
ToResults(ids, index) ==
    IF ids = <<>> THEN <<>>
    ELSE (IF MapHas(index, Head(ids))
          THEN <<Projection(MapGet(index, Head(ids)))>>
          ELSE <<>>) \o ToResults(Tail(ids), index)

(***************************************************************************)
(* Array.prototype.sort.  The sort is stable, and for a consistent         *)
(* comparator every implementation returns the same array.  For an         *)
(* inconsistent comparator the order is implementation-defined: the       *)
(* engine's sort is one of two insertion sorts that hand the comparator    *)
(* its arguments in different orders.                                      *)
(***************************************************************************)
SortImpls == {"linear", "binary"}

\* The comparator of searchByName, for the normalized query.
Comparator(a, b, normalizedQuery) ==
    LET aLower == ToLowerCase(a.name)
        bLower == ToLowerCase(b.name)
        queryLower == normalizedQuery
        aStarts == StartsWith(aLower, queryLower)
        bStarts == StartsWith(bLower, queryLower)
    IN  IF aLower = queryLower THEN -1
        ELSE IF bLower = queryLower THEN 1
        ELSE IF aStarts /\ ~bStarts THEN -1
        ELSE IF ~aStarts /\ bStarts THEN 1
        ELSE LocaleCompare(a.name, b.name)

RECURSIVE LinearPos(_, _, _, _)
\* Linear insertion: move x left past every element that compares greater.
LinearPos(sorted, x, j, q) ==
    IF j >= 1 /\ Comparator(sorted[j], x, q) > 0
    THEN LinearPos(sorted, x, j - 1, q)
    ELSE j + 1

RECURSIVE BinaryPos(_, _, _, _, _)
\* Binary insertion: the leftmost position after every element not greater.
BinaryPos(sorted, x, left, right, q) ==
    IF left >= right THEN left + 1
    ELSE LET mid == left + ((right - left) \div 2)
         IN  IF Comparator(x, sorted[mid + 1], q) < 0
             THEN BinaryPos(sorted, x, left, mid, q)
             ELSE BinaryPos(sorted, x, mid + 1, right, q)

InsertAt(s, pos, x) == SubSeq(s, 1, pos - 1) \o <<x>> \o SubSeq(s, pos, Len(s))

RECURSIVE SortFrom(_, _, _, _)
SortFrom(sorted, rest, impl, q) ==
    IF rest = <<>> THEN sorted
    ELSE LET x == Head(rest)
             pos == IF impl = "linear"
                    THEN LinearPos(sorted, x, Len(sorted), q)
                    ELSE BinaryPos(sorted, x, 0, Len(sorted), q)
         IN  SortFrom(InsertAt(sorted, pos, x), Tail(rest), impl, q)

\* results.sort((a, b) => ...)
Sort(results, impl, q) == SortFrom(<<>>, results, impl, q)

(***************************************************************************)
(* searchByName                                                            *)
(***************************************************************************)
RECURSIVE PrefixMatches(_, _, _)
\* for (const [indexedToken, facilityIds] of nameIndex.entries()) ...
PrefixMatches(matchingIds, entries, queryToken) ==
    IF entries = <<>> THEN matchingIds
    ELSE LET indexedToken == Head(entries).key
             facilityIds == Head(entries).val
         IN  PrefixMatches(
                IF indexedToken # queryToken /\ StartsWith(indexedToken, queryToken)
                THEN SetAddAll(matchingIds, facilityIds)
                ELSE matchingIds,
                Tail(entries), queryToken)

\* A loop over the query tokens that stops after the first token.
MatchFirstTokenOnly(matchingIds, queryTokens, index) ==
    IF queryTokens = <<>> THEN matchingIds
    ELSE LET queryToken == Head(queryTokens)
             exact == IF MapHas(index, queryToken)
                      THEN SetAddAll(matchingIds, MapGet(index, queryToken))
                      ELSE matchingIds
         IN  PrefixMatches(exact, index, queryToken)

RECURSIVE MatchTokens(_, _, _)
\* for (const queryToken of queryTokens) ...
MatchTokens(matchingIds, queryTokens, index) ==
    IF queryTokens = <<>> THEN matchingIds
    ELSE LET queryToken == Head(queryTokens)
             exact == IF MapHas(index, queryToken)
                      THEN SetAddAll(matchingIds, MapGet(index, queryToken))
                      ELSE matchingIds
         IN  MatchTokens(PrefixMatches(exact, index, queryToken),
                         Tail(queryTokens), index)

\* A normalization that keeps the letter case of the query.
NormalizeQueryKeepCase(query) == Trim(query)

\* query.toLowerCase().trim()
NormalizeQuery(query) == Trim(ToLowerCase(query))

searchByName(query, impl) ==
    IF query = <<>> \/ Len(Trim(query)) = 0 THEN <<>>
    ELSE LET normalizedQuery == NormalizeQuery(query)
             queryTokens == NonEmptyOnly(SplitWs(normalizedQuery))
             matchingIds == MatchTokens(<<>>, queryTokens, nameIndex)
             results == ToResults(matchingIds, facilityIndex)
         IN  Sort(results, impl, normalizedQuery)

(***************************************************************************)
(* getById                                                                 *)
(***************************************************************************)
\* A lookup that returns the search projection instead of the record.
getByIdProjection(id) ==
    IF id = <<>> THEN Null
    ELSE IF MapHas(facilityIndex, id) THEN Found(Projection(MapGet(facilityIndex, id)))
    ELSE Null

getById(id) ==
    IF id = <<>> THEN Null
    ELSE IF MapHas(facilityIndex, id) THEN Found(MapGet(facilityIndex, id))
    ELSE Null

(***************************************************************************)
(* filterByAmenities                                                       *)
(***************************************************************************)
\* An intersection step that deletes nothing.
DeleteNothing(matchingIds, amenityIds) == matchingIds

\* for (const id of matchingIds) if (!amenityIds.has(id)) matchingIds.delete(id)
\* Deleting the entry being visited leaves the iteration of a Set intact:
\* every entry is visited once and the survivors keep their order.
DeleteMissing(matchingIds, amenityIds) ==
    SelectSeq(matchingIds, LAMBDA id : Contains(amenityIds, id))

RECURSIVE IntersectSkipUnknown(_, _, _)
\* An intersection loop that treats an unknown label as no constraint.
IntersectSkipUnknown(matchingIds, normalizedAmenities, i) ==
    IF i > Len(normalizedAmenities) THEN matchingIds
    ELSE IF ~MapHas(amenityIndex, normalizedAmenities[i])
         THEN IntersectSkipUnknown(matchingIds, normalizedAmenities, i + 1)
    ELSE LET amenityIds == MapGet(amenityIndex, normalizedAmenities[i])
             kept == DeleteMissing(matchingIds, amenityIds)
         IN  IF Len(amenityIds) = 0 \/ Len(kept) = 0 THEN <<>>
             ELSE IntersectSkipUnknown(kept, normalizedAmenities, i + 1)

RECURSIVE Intersect(_, _, _)
\* The loop over normalizedAmenities[i..]: the surviving ids, or <<>> as
\* soon as a label is unknown or no candidate is left.
Intersect(matchingIds, normalizedAmenities, i) ==
    IF i > Len(normalizedAmenities) THEN matchingIds
    ELSE IF ~MapHas(amenityIndex, normalizedAmenities[i]) THEN <<>>
    ELSE LET amenityIds == MapGet(amenityIndex, normalizedAmenities[i])
             kept == DeleteMissing(matchingIds, amenityIds)
         IN  IF Len(amenityIds) = 0 \/ Len(kept) = 0 THEN <<>>
             ELSE Intersect(kept, normalizedAmenities, i + 1)

\* filterByAmenities past its guard: amenities is not empty.
FilterNonEmpty(amenities) ==
    LET normalizedAmenities == [i \in DOMAIN amenities |-> ToLowerCase(amenities[i])]
        firstAmenity == normalizedAmenities[1]
    IN  IF ~MapHas(amenityIndex, firstAmenity) THEN <<>>
        ELSE LET candidateIds == MapGet(amenityIndex, firstAmenity)
             IN  IF Len(candidateIds) = 0 THEN <<>>
                 ELSE ToResults(Intersect(candidateIds, normalizedAmenities, 2),
                                facilityIndex)

\* A filter for which the empty conjunction selects every record.
filterByAmenitiesVacuous(amenities) ==
    IF Len(amenities) = 0
    THEN [i \in DOMAIN facilityIndex |-> Projection(facilityIndex[i].val)]
    ELSE FilterNonEmpty(amenities)

filterByAmenities(amenities) ==
    IF Len(amenities) = 0 THEN <<>> ELSE FilterNonEmpty(amenities)

RECURSIVE MatchingIdsAtReturn(_, _, _)
\* The content of matchingIds when the loop over normalizedAmenities[i..] is
\* left, by its end or by either early return.
MatchingIdsAtReturn(matchingIds, normalizedAmenities, i) ==
    IF i > Len(normalizedAmenities) THEN matchingIds
    ELSE IF ~MapHas(amenityIndex, normalizedAmenities[i]) THEN matchingIds
    ELSE LET amenityIds == MapGet(amenityIndex, normalizedAmenities[i])
             kept == DeleteMissing(matchingIds, amenityIds)
         IN  IF Len(amenityIds) = 0 THEN matchingIds
             ELSE IF Len(kept) = 0 THEN kept
             ELSE MatchingIdsAtReturn(kept, normalizedAmenities, i + 1)

\* A filter whose matchingIds is the posting set of the first label itself:
\* the deletions of the loop land in the index.
AmenityIndexAfterFilterInPlace(amenities) ==
    IF Len(amenities) = 0 THEN amenityIndex
    ELSE LET normalizedAmenities ==
                 [i \in DOMAIN amenities |-> ToLowerCase(amenities[i])]
             firstAmenity == normalizedAmenities[1]
         IN  IF ~MapHas(amenityIndex, firstAmenity) THEN amenityIndex
             ELSE MapSet(amenityIndex, firstAmenity,
                         MatchingIdsAtReturn(MapGet(amenityIndex, firstAmenity),
                                             normalizedAmenities, 2))

\* The amenity index when filterByAmenities returns.
\* const matchingIds = new Set(candidateIds): the loop deletes from a copy,
\* and the function writes to no field of the service.
AmenityIndexAfterFilter(amenities) == amenityIndex

(***************************************************************************)
(* getCount                                                                *)
(***************************************************************************)
getCount == Len(facilities)

(***************************************************************************)
(* Arguments of the calls.                                                 *)
(***************************************************************************)
QueryChars == {"a", "A", "b", " "}

Queries == SeqsUpTo(QueryChars, MaxQueryLen)

LabelPool == { <<"p">>, <<"P">>, <<"s">>, <<" ", "p">> }

LabelLists == SeqsUpTo(LabelPool, MaxLabels)

\* An identifier as a client may send it: surrounded by white space, or white
\* space only.
PaddedIds == { <<" ">> \o IdSeq[1], IdSeq[1] \o <<" ">>, <<" ">> }

IdArgs == IdPool \cup { <<>>, IdSeq[4] } \cup PaddedIds

(***************************************************************************)
(* The service after construction, and its calls.  The calls are           *)
(* synchronous and the process is single-threaded: a call starts when no   *)
(* other call is running, call and ret hold the call being answered and    *)
(* its return value until the caller has taken it.                         *)
(***************************************************************************)
Idle == [op |-> "none", arg |-> <<>>]

\* No HTTP request is being handled.
NoRequest == [stage |-> "none"]

\* The process after startServer(): the server listens, no connection is
\* open, no signal has arrived.  listeners counts the callbacks given to
\* server.close, which wait for the server's 'close' event; log holds the
\* lines the shutdown code has printed.
Listening == [server |-> "listening", connections |-> 0, listeners |-> 0,
              log |-> <<>>, exited |-> FALSE, code |-> 0]

\* The constructor's loop at record i, about to write the named index.
At(i, index) == [i |-> i, at |-> index]

\* The loop has gone through fs.
Constructed(fs) == At(Len(fs) + 1, "facilityIndex")

\* A service that callers could reach while its constructor is running.
ServiceReachableDuringBuild == TRUE

\* A caller reaches the service through the binding
\* export const facilityService = new FacilityService(), which is initialised
\* when the constructor has returned.
ServiceReachable == exported

Init ==
    /\ facilities \in Stores
    /\ facilityIndex = buildIndexes(facilities, EmptyIndexes).facilityIndex
    /\ nameIndex = buildIndexes(facilities, EmptyIndexes).nameIndex
    /\ amenityIndex = buildIndexes(facilities, EmptyIndexes).amenityIndex
    /\ call = Idle
    /\ ret = Null
    /\ ctor = Constructed(facilities)
    /\ exported = TRUE
    /\ http = NoRequest
    /\ trace = <<>>
    /\ inflight = <<>>
    /\ proc = Listening

SearchByName ==
    \E query \in Queries, impl \in SortImpls :
        /\ ServiceReachable
        /\ call = Idle
        /\ call' = [op |-> "searchByName", arg |-> query]
        /\ ret' = List(searchByName(query, impl))
        /\ UNCHANGED <<service, loading, http, outside>>

GetById ==
    \E id \in IdArgs :
        /\ ServiceReachable
        /\ call = Idle
        /\ call' = [op |-> "getById", arg |-> id]
        /\ ret' = getById(id)
        /\ UNCHANGED <<service, loading, http, outside>>

FilterByAmenities ==
    \E amenities \in LabelLists :
        /\ ServiceReachable
        /\ call = Idle
        /\ call' = [op |-> "filterByAmenities", arg |-> amenities]
        /\ ret' = List(filterByAmenities(amenities))
        /\ amenityIndex' = AmenityIndexAfterFilter(amenities)
        /\ UNCHANGED <<facilities, facilityIndex, nameIndex, loading, http, outside>>

GetCount ==
    /\ ServiceReachable
    /\ call = Idle
    /\ call' = [op |-> "getCount", arg |-> <<>>]
    /\ ret' = Number(getCount)
    /\ UNCHANGED <<service, loading, http, outside>>

\* The caller takes the return value.
Return ==
    /\ call # Idle
    /\ call' = Idle
    /\ ret' = Null
    /\ UNCHANGED <<service, loading, http, outside>>

Next == SearchByName \/ GetById \/ FilterByAmenities \/ GetCount \/ Return

Spec == Init /\ [][Next]_vars

(***************************************************************************)
(* The service constructed from an unchecked data file.                    *)
(***************************************************************************)
InitCandidates ==
    /\ facilities \in CandidateStores
    /\ facilityIndex = buildIndexes(facilities, EmptyIndexes).facilityIndex
    /\ nameIndex = buildIndexes(facilities, EmptyIndexes).nameIndex
    /\ amenityIndex = buildIndexes(facilities, EmptyIndexes).amenityIndex
    /\ call = Idle
    /\ ret = Null
    /\ ctor = Constructed(facilities)
    /\ exported = TRUE
    /\ http = NoRequest
    /\ trace = <<>>
    /\ inflight = <<>>
    /\ proc = Listening

SpecCandidates == InitCandidates /\ [][Next]_vars

(***************************************************************************)
(* The evaluation of the module from its start: the constructor takes the  *)
(* record array, creates three empty maps and runs buildIndexes, one index *)
(* write per step; the binding facilityService is initialised afterwards.  *)
(***************************************************************************)
InitLoad ==
    /\ facilities \in Stores
    /\ facilityIndex = <<>>
    /\ nameIndex = <<>>
    /\ amenityIndex = <<>>
    /\ call = Idle
    /\ ret = Null
    /\ ctor = At(1, "facilityIndex")
    /\ exported = FALSE
    /\ http = NoRequest
    /\ trace = <<>>
    /\ inflight = <<>>
    /\ proc = Listening

\* this.facilityIndex.set(facility.id, facility)
IndexById ==
    /\ ~exported
    /\ ctor.i <= Len(facilities)
    /\ ctor.at = "facilityIndex"
    /\ facilityIndex' = MapSet(facilityIndex, facilities[ctor.i].id, facilities[ctor.i])
    /\ ctor' = At(ctor.i, "nameIndex")
    /\ UNCHANGED <<facilities, nameIndex, amenityIndex, call, ret, exported, http, outside>>

\* for (const token of this.tokenizeName(facility.name)) ...
IndexByName ==
    /\ ~exported
    /\ ctor.i <= Len(facilities)
    /\ ctor.at = "nameIndex"
    /\ nameIndex' = IndexTokens(nameIndex, tokenizeName(facilities[ctor.i].name),
                                facilities[ctor.i].id)
    /\ ctor' = At(ctor.i, "amenityIndex")
    /\ UNCHANGED <<facilities, facilityIndex, amenityIndex, call, ret, exported, http, outside>>

\* for (const amenity of facility.facilities) ...
IndexByAmenity ==
    /\ ~exported
    /\ ctor.i <= Len(facilities)
    /\ ctor.at = "amenityIndex"
    /\ amenityIndex' = IndexAmenities(amenityIndex, facilities[ctor.i].facilities,
                                      facilities[ctor.i].id)
    /\ ctor' = At(ctor.i + 1, "facilityIndex")
    /\ UNCHANGED <<facilities, facilityIndex, nameIndex, call, ret, exported, http, outside>>

\* export const facilityService = new FacilityService()
Export ==
    /\ ~exported
    /\ ctor = Constructed(facilities)
    /\ exported' = TRUE
    /\ UNCHANGED <<service, call, ret, ctor, http, outside>>

NextLoad ==
    \/ IndexById \/ IndexByName \/ IndexByAmenity \/ Export
    \/ SearchByName \/ GetById \/ FilterByAmenities \/ GetCount \/ Return

SpecLoad == InitLoad /\ [][NextLoad]_vars

(***************************************************************************)
(* The facility router (routes/facility.routes.ts) behind authMiddleware   *)
(* (middleware/auth.middleware.ts).  A request carries, for each query     *)
(* parameter and for the Authorization header, the sequence of the values  *)
(* given for it: none, one string, or several (which Express hands to the  *)
(* handler as an array).                                                   *)
(***************************************************************************)
MaxQueryChars == 100

RECURSIVE Split(_, _)
\* String.prototype.split with a one-character separator.
Split(s, sep) ==
    IF ~Contains(s, sep) THEN <<s>>
    ELSE LET k == CHOOSE i \in DOMAIN s :
                      s[i] = sep /\ \A j \in 1..(i - 1) : s[j] # sep
         IN  <<SubSeq(s, 1, k - 1)>> \o Split(SubSeq(s, k + 1, Len(s)), sep)

Bearer == <<"B", "e", "a", "r", "e", "r", " ">>

\* authHeader.replace('Bearer ', '') on a header that starts with 'Bearer ':
\* the first occurrence is the leading one.
RemoveBearer(authHeader) == SubSeq(authHeader, Len(Bearer) + 1, Len(authHeader))

\* The payload segments that atob and JSON.parse decode, with the user they
\* carry (generateMockToken: btoa(JSON.stringify({ user, exp }))).
PayloadUser(segment) ==
    CASE segment = <<"u">> -> <<"u", "s", "e", "r">>
      [] segment = <<"v">> -> <<"v", "i", "s", "i", "t", "o", "r">>
      [] OTHER -> <<>>

Decodes(segment) == segment \in { <<"u">>, <<"v">> }

\* A verification that accepts every token.
verifyTokenAcceptsAll(token) == [ok |-> TRUE, user |-> <<>>]

\* verifyToken: JSON.parse(atob(token.split('.')[1])).user, or a rejection
\* when the segment is missing or does not decode.
verifyToken(token) ==
    LET parts == Split(token, ".")
    IN  IF Len(parts) >= 2 /\ Decodes(parts[2])
        THEN [ok |-> TRUE, user |-> PayloadUser(parts[2])]
        ELSE [ok |-> FALSE, user |-> <<>>]

GoodToken == <<"h", ".", "u", ".", "g">>

AuthHeaders ==
    { <<>>,
      << <<"B", "a", "s", "i", "c", " ", "h">> >>,
      << Bearer >>,
      << Bearer \o <<"h">> >>,
      << Bearer \o <<"h", ".", "!", ".", "g">> >>,
      << Bearer \o GoodToken >> }

\* Values of the query parameter q: absent, empty, one string (of up to
\* MaxQueryChars characters, or one more), or given twice.
QParams ==
    { <<>>, << <<>> >>, << <<"a">> >>, << <<"B">> >>, << <<"a", " ", "b">> >>,
      << [i \in 1..MaxQueryChars |-> "a"] >>,
      << [i \in 1..(MaxQueryChars + 1) |-> "a"] >>,
      << <<"a">>, <<"b">> >> }

\* Values of the query parameter amenities.
AmenitiesParams ==
    { <<>>, << <<>> >>, << <<",">> >>, << <<" ", ",", " ">> >>,
      << <<"p">> >>, << <<"s">> >>, << <<"P", ",", " ", "s">> >>,
      << <<"p">>, <<"s">> >> }

\* The path segment of GET /:id is never empty.
IdParams == IdArgs \ { <<>> }

Request(route, authorization, q, amenities, id) ==
    [route |-> route, authorization |-> authorization, q |-> q,
     amenities |-> amenities, id |-> id]

Requests ==
    { Request("search", h, q, a, <<>>) :
          h \in AuthHeaders, q \in QParams, a \in AmenitiesParams }
    \cup { Request("detail", h, <<>>, <<>>, id) : h \in AuthHeaders, id \in IdParams }
    \cup { Request("list", h, <<>>, <<>>, <<>>) : h \in AuthHeaders }

NoBody == [none |-> TRUE]

\* res.status(status).json(body)
Send(h, status, body) ==
    [h EXCEPT !.stage = "responded", !.status = status, !.body = body]

\* The service call made by the handler, in the order the handler makes it.
Invoke(h, op, arg) == [h EXCEPT !.calls = Append(@, [op |-> op, arg |-> arg])]

\* A schema without the upper limit on q.
SearchQueryValidNoMax(q, amenities) ==
    /\ Len(q) = 1
    /\ Len(q[1]) >= 1
    /\ Len(amenities) <= 1

\* searchQuerySchema.safeParse(req.query).success
SearchQueryValid(q, amenities) ==
    /\ Len(q) = 1
    /\ Len(q[1]) >= 1
    /\ Len(q[1]) <= MaxQueryChars
    /\ Len(amenities) <= 1

\* amenities.split(',').map(a => a.trim()).filter(Boolean)
AmenityList(amenities) ==
    NonEmptyOnly([i \in DOMAIN Split(amenities, ",") |-> Trim(Split(amenities, ",")[i])])

\* A combination that answers with the filter's results.
FilterResultsByAmenityOrder(results, amenityResults) ==
    LET nameIds == {results[i].id : i \in DOMAIN results}
    IN  SelectSeq(amenityResults, LAMBDA r : r.id \in nameIds)

\* const amenityIds = new Set(amenityResults.map(r => r.id));
\* results.filter(r => amenityIds.has(r.id))
FilterResults(results, amenityResults) ==
    LET amenityIds == {amenityResults[i].id : i \in DOMAIN amenityResults}
    IN  SelectSeq(results, LAMBDA r : r.id \in amenityIds)

SearchBody(q, results) == [query |-> q, count |-> Len(results), results |-> results]

\* A handler that filters whenever the parameter is given, also by an empty
\* list of labels.
SearchHandlerAlwaysFiltering(h, impl) ==
    IF ~SearchQueryValid(h.req.q, h.req.amenities)
    THEN Send(h, 400, [error |-> "Invalid query parameters"])
    ELSE LET q == h.req.q[1]
             results == searchByName(q, impl)
             searched == Invoke(h, "searchByName", q)
         IN  IF h.req.amenities = <<>>
             THEN Send(searched, 200, SearchBody(q, results))
             ELSE LET amenityList == AmenityList(h.req.amenities[1])
                  IN  Send(Invoke(searched, "filterByAmenities", amenityList), 200,
                           SearchBody(q, FilterResults(results,
                                                       filterByAmenities(amenityList))))

\* The GET /search handler on a request that passed authMiddleware.
SearchHandler(h, impl) ==
    IF ~SearchQueryValid(h.req.q, h.req.amenities)
    THEN Send(h, 400, [error |-> "Invalid query parameters"])
    ELSE LET q == h.req.q[1]
             results == searchByName(q, impl)
             searched == Invoke(h, "searchByName", q)
             amenityList == IF h.req.amenities = <<>> THEN <<>>
                            ELSE AmenityList(h.req.amenities[1])
         IN  IF amenityList = <<>>
             THEN Send(searched, 200, SearchBody(q, results))
             ELSE Send(Invoke(searched, "filterByAmenities", amenityList), 200,
                       SearchBody(q, FilterResults(results,
                                                   filterByAmenities(amenityList))))

\* The GET /:id handler on a request that passed authMiddleware.
DetailHandler(h) ==
    LET facility == getById(h.req.id)
        looked == Invoke(h, "getById", h.req.id)
    IN  IF facility = Null
        THEN Send(looked, 404, [error |-> "Facility not found"])
        ELSE Send(looked, 200, facility.value)

\* The GET / handler on a request that passed authMiddleware.
ListHandler(h) ==
    Send(Invoke(h, "getCount", <<>>), 200, [totalFacilities |-> getCount])

InitHttp ==
    /\ facilities \in MixedStores
    /\ facilityIndex = buildIndexes(facilities, EmptyIndexes).facilityIndex
    /\ nameIndex = buildIndexes(facilities, EmptyIndexes).nameIndex
    /\ amenityIndex = buildIndexes(facilities, EmptyIndexes).amenityIndex
    /\ call = Idle
    /\ ret = Null
    /\ ctor = Constructed(facilities)
    /\ exported = TRUE
    /\ http = NoRequest
    /\ trace = <<>>
    /\ inflight = <<>>
    /\ proc = Listening

\* Express dispatches the request to the route; its first handler is
\* authMiddleware.
Receive ==
    \E req \in Requests :
        /\ http = NoRequest
        /\ http' = [stage |-> "authMiddleware", req |-> req, user |-> <<>>,
                    calls |-> <<>>, status |-> 0, body |-> NoBody]
        /\ UNCHANGED <<service, call, ret, loading, outside>>

\* authMiddleware up to its await: the three checks of the header.
AuthMiddleware ==
    /\ http.stage = "authMiddleware"
    /\ LET authHeader == http.req.authorization
       IN  http' =
             IF authHeader = <<>>
             THEN Send(http, 401, [error |-> "Authentication required"])
             ELSE IF ~StartsWith(authHeader[1], Bearer)
             THEN Send(http, 401, [error |-> "Invalid authorization format"])
             ELSE IF RemoveBearer(authHeader[1]) = <<>>
             THEN Send(http, 401, [error |-> "Authentication required"])
             ELSE [http EXCEPT !.stage = "verifyToken"]
    /\ UNCHANGED <<service, call, ret, loading, outside>>

\* The promise of verifyToken settles: req.user = user and next(), or the
\* catch block's 401.
VerifyToken ==
    /\ http.stage = "verifyToken"
    /\ LET verified == verifyToken(RemoveBearer(http.req.authorization[1]))
       IN  http' =
             IF verified.ok
             THEN [http EXCEPT !.user = verified.user, !.stage = "handler"]
             ELSE Send(http, 401, [error |-> "Invalid token"])
    /\ UNCHANGED <<service, call, ret, loading, outside>>

SearchRoute ==
    \E impl \in SortImpls :
        /\ http.stage = "handler"
        /\ http.req.route = "search"
        /\ http' = SearchHandler(http, impl)
        /\ UNCHANGED <<service, call, ret, loading, outside>>

DetailRoute ==
    /\ http.stage = "handler"
    /\ http.req.route = "detail"
    /\ http' = DetailHandler(http)
    /\ UNCHANGED <<service, call, ret, loading, outside>>

ListRoute ==
    /\ http.stage = "handler"
    /\ http.req.route = "list"
    /\ http' = ListHandler(http)
    /\ UNCHANGED <<service, call, ret, loading, outside>>

\* The response has gone out.
ResponseSent ==
    /\ http.stage = "responded"
    /\ http' = NoRequest
    /\ UNCHANGED <<service, call, ret, loading, outside>>

NextHttp ==
    \/ Receive \/ AuthMiddleware \/ VerifyToken
    \/ SearchRoute \/ DetailRoute \/ ListRoute \/ ResponseSent

SpecHttp == InitHttp /\ [][NextHttp]_vars

(***************************************************************************)
(* The accesses of a query to the indexes and to its working set, in the   *)
(* order the code makes them.  An access names what it does (ev), the      *)
(* collection it is on (on) and the key, identifier or token it is about.  *)
(***************************************************************************)
Access(ev, on, key) == [ev |-> ev, on |-> on, key |-> key]

RECURSIVE Concat(_)
Concat(seqs) == IF seqs = <<>> THEN <<>> ELSE Head(seqs) \o Concat(Tail(seqs))

\* for (const [indexedToken, facilityIds] of this.nameIndex.entries()): the
\* loop visits every entry of the name index.
PrefixScanTrace(queryToken) ==
    [i \in DOMAIN nameIndex |-> Access("examine", "nameIndex", nameIndex[i].key)]

\* One round of for (const queryToken of queryTokens): the exact lookup, then
\* the scan.
TokenTrace(queryToken) ==
    <<Access("get", "nameIndex", queryToken)>> \o PrefixScanTrace(queryToken)

\* searchByName up to the collection of matchingIds.
SearchTrace(query) ==
    IF query = <<>> \/ Len(Trim(query)) = 0 THEN <<>>
    ELSE LET queryTokens == NonEmptyOnly(SplitWs(NormalizeQuery(query)))
         IN  Concat([i \in DOMAIN queryTokens |-> TokenTrace(queryTokens[i])])

\* for (const id of matchingIds) { if (!amenityIds.has(id)) matchingIds.delete(id) }
\* The loop runs over matchingIds itself; every entry present at its start is
\* visited.
NarrowTrace(matchingIds, amenityIds) ==
    <<Access("iterate", "matchingIds", <<>>)>>
    \o Concat([i \in DOMAIN matchingIds |->
                  <<Access("visit", "matchingIds", matchingIds[i])>>
                  \o (IF Contains(amenityIds, matchingIds[i]) THEN <<>>
                      ELSE <<Access("delete", "matchingIds", matchingIds[i])>>)])
    \o <<Access("done", "matchingIds", <<>>)>>

\* for (const id of matchingIds) { const facility = this.facilityIndex.get(id) ... }
ProjectTrace(matchingIds) ==
    <<Access("iterate", "matchingIds", <<>>)>>
    \o Concat([i \in DOMAIN matchingIds |->
                  << Access("visit", "matchingIds", matchingIds[i]),
                     Access("get", "facilityIndex", matchingIds[i]) >>])
    \o <<Access("done", "matchingIds", <<>>)>>

RECURSIVE IntersectTrace(_, _, _)
\* The loop over normalizedAmenities[i..], with its two early returns.
IntersectTrace(matchingIds, normalizedAmenities, i) ==
    IF i > Len(normalizedAmenities) THEN ProjectTrace(matchingIds)
    ELSE <<Access("get", "amenityIndex", normalizedAmenities[i])>>
         \o (IF ~MapHas(amenityIndex, normalizedAmenities[i]) THEN <<>>
             ELSE LET amenityIds == MapGet(amenityIndex, normalizedAmenities[i])
                      kept == DeleteMissing(matchingIds, amenityIds)
                  IN  IF Len(amenityIds) = 0 THEN <<>>
                      ELSE NarrowTrace(matchingIds, amenityIds)
                           \o (IF Len(kept) = 0 THEN <<>>
                               ELSE IntersectTrace(kept, normalizedAmenities, i + 1)))

FilterTrace(amenities) ==
    IF Len(amenities) = 0 THEN <<>>
    ELSE LET normalizedAmenities ==
                 [i \in DOMAIN amenities |-> ToLowerCase(amenities[i])]
             firstAmenity == normalizedAmenities[1]
         IN  <<Access("get", "amenityIndex", firstAmenity)>>
             \o (IF ~MapHas(amenityIndex, firstAmenity) THEN <<>>
                 ELSE IF Len(MapGet(amenityIndex, firstAmenity)) = 0 THEN <<>>
                 ELSE <<Access("new", "matchingIds", firstAmenity)>>
                      \o IntersectTrace(MapGet(amenityIndex, firstAmenity),
                                        normalizedAmenities, 2))

\* searchByName and filterByAmenities with their accesses recorded.
TracedSearchByName ==
    \E query \in Queries, impl \in SortImpls :
        /\ ServiceReachable
        /\ call = Idle
        /\ call' = [op |-> "searchByName", arg |-> query]
        /\ ret' = List(searchByName(query, impl))
        /\ trace' = SearchTrace(query)
        /\ UNCHANGED <<service, loading, http, inflight, proc>>

TracedFilterByAmenities ==
    \E amenities \in LabelLists :
        /\ ServiceReachable
        /\ call = Idle
        /\ call' = [op |-> "filterByAmenities", arg |-> amenities]
        /\ ret' = List(filterByAmenities(amenities))
        /\ trace' = FilterTrace(amenities)
        /\ amenityIndex' = AmenityIndexAfterFilter(amenities)
        /\ UNCHANGED <<facilities, facilityIndex, nameIndex, loading, http,
                       inflight, proc>>

TracedReturn ==
    /\ call # Idle
    /\ call' = Idle
    /\ ret' = Null
    /\ trace' = <<>>
    /\ UNCHANGED <<service, loading, http, inflight, proc>>

NextTraced == TracedSearchByName \/ TracedFilterByAmenities \/ TracedReturn

SpecTraced == Init /\ [][NextTraced]_vars

(***************************************************************************)
(* authMiddleware with several requests inside it at once.  Each call of   *)
(* the middleware has its own req, res and next; the calls run up to their *)
(* await in the order the requests arrive, and the promises of verifyToken *)
(* (a random delay of 100 to 500 ms each) settle in any order.  A request  *)
(* records the 401 responses the middleware has sent for it and the number *)
(* of times the middleware has called next for it.                         *)
(***************************************************************************)
MaxRequests == 2

OtherToken == <<"h", ".", "v", ".", "g">>

ConcurrentHeaders == AuthHeaders \cup { << Bearer \o OtherToken >> }

Arrived(authHeader) ==
    [authorization |-> authHeader, stage |-> "authMiddleware", user |-> <<>>,
     sent |-> <<>>, nexts |-> 0]

\* res.status(401).json({ error })
Send401(r, error) ==
    [r EXCEPT !.sent = Append(@, [status |-> 401, error |-> error])]

Returns(r) == [r EXCEPT !.stage = "returned"]

\* Header checks whose 401 branches lack their return statement.
HeaderChecksFallingThrough(r) ==
    LET authHeader == r.authorization
    IN  IF authHeader = <<>>
        THEN Returns(Send401(r, "Authentication required"))
        ELSE IF ~StartsWith(authHeader[1], Bearer)
        THEN [Send401(r, "Invalid authorization format") EXCEPT !.stage = "verifyToken"]
        ELSE IF RemoveBearer(authHeader[1]) = <<>>
        THEN Returns(Send401(r, "Authentication required"))
        ELSE [r EXCEPT !.stage = "verifyToken"]

\* authMiddleware up to its await.
HeaderChecks(r) ==
    LET authHeader == r.authorization
    IN  IF authHeader = <<>>
        THEN Returns(Send401(r, "Authentication required"))
        ELSE IF ~StartsWith(authHeader[1], Bearer)
        THEN Returns(Send401(r, "Invalid authorization format"))
        ELSE IF RemoveBearer(authHeader[1]) = <<>>
        THEN Returns(Send401(r, "Authentication required"))
        ELSE [r EXCEPT !.stage = "verifyToken"]

\* authMiddleware after its await: req.user = user; next(), or the catch
\* block's 401.
Settled(r) ==
    LET verified == verifyToken(RemoveBearer(r.authorization[1]))
    IN  IF verified.ok
        THEN Returns([r EXCEPT !.user = verified.user, !.nexts = @ + 1])
        ELSE Returns(Send401(r, "Invalid token"))

InitAuth ==
    /\ facilities \in {fs \in MixedStores : Len(fs) = 1}
    /\ LET idx == buildIndexes(facilities, EmptyIndexes)
       IN  /\ facilityIndex = idx.facilityIndex
           /\ nameIndex = idx.nameIndex
           /\ amenityIndex = idx.amenityIndex
    /\ call = Idle
    /\ ret = Null
    /\ ctor = Constructed(facilities)
    /\ exported = TRUE
    /\ http = NoRequest
    /\ trace = <<>>
    /\ inflight = <<>>
    /\ proc = Listening

\* Express calls authMiddleware(req, res, next) for a request.
Arrive ==
    \E authHeader \in ConcurrentHeaders :
        /\ Len(inflight) < MaxRequests
        /\ inflight' = Append(inflight, Arrived(authHeader))
        /\ UNCHANGED <<service, call, ret, loading, http, trace, proc>>

CheckHeader ==
    \E i \in DOMAIN inflight :
        /\ inflight[i].stage = "authMiddleware"
        /\ inflight' = [inflight EXCEPT ![i] = HeaderChecks(@)]
        /\ UNCHANGED <<service, call, ret, loading, http, trace, proc>>

\* The promise of verifyToken of one of the waiting requests settles.
Settle ==
    \E i \in DOMAIN inflight :
        /\ inflight[i].stage = "verifyToken"
        /\ inflight' = [inflight EXCEPT ![i] = Settled(@)]
        /\ UNCHANGED <<service, call, ret, loading, http, trace, proc>>

NextAuth == Arrive \/ CheckHeader \/ Settle

SpecAuth == InitAuth /\ [][NextAuth]_vars

(***************************************************************************)
(* The process (index.ts): startServer() and its SIGTERM / SIGINT          *)
(* handlers.  server.close(cb) stops the server from accepting connections *)
(* and registers cb for the 'close' event, which the server emits, from    *)
(* the next-tick queue, when it accepts no more and its last connection    *)
(* has ended.                                                              *)
(***************************************************************************)
MaxConnections == 2

MaxSignals == 2

Signals == {"SIGTERM", "SIGINT"}

\* A handler that exits without waiting for the server.
OnSignalExitingAtOnce(p, sig) ==
    [p EXCEPT !.log = Append(@, sig \o " signal received: closing HTTP server"),
              !.exited = TRUE, !.code = 0]

\* process.on(sig, () => { console.log(...); server.close(() => {...}) })
OnSignal(p, sig) ==
    [p EXCEPT !.log = Append(@, sig \o " signal received: closing HTTP server"),
              !.server = IF @ = "listening" THEN "closing" ELSE @,
              !.listeners = @ + 1]

\* The callback given to server.close:
\* console.log('HTTP server closed'); process.exit(0)
OnClose(p) ==
    [p EXCEPT !.log = Append(@, "HTTP server closed"),
              !.exited = TRUE, !.code = 0]

SignalsReceived(p) ==
    Len(SelectSeq(p.log, LAMBDA line : line # "HTTP server closed"))

InitShutdown ==
    /\ facilities \in {fs \in MixedStores : Len(fs) = 1}
    /\ LET idx == buildIndexes(facilities, EmptyIndexes)
       IN  /\ facilityIndex = idx.facilityIndex
           /\ nameIndex = idx.nameIndex
           /\ amenityIndex = idx.amenityIndex
    /\ call = Idle
    /\ ret = Null
    /\ ctor = Constructed(facilities)
    /\ exported = TRUE
    /\ http = NoRequest
    /\ trace = <<>>
    /\ inflight = <<>>
    /\ proc = Listening

\* A client opens a connection to the listening server.
Connect ==
    /\ ~proc.exited
    /\ proc.server = "listening"
    /\ proc.connections < MaxConnections
    /\ proc' = [proc EXCEPT !.connections = @ + 1]
    /\ UNCHANGED <<service, call, ret, loading, http, trace, inflight>>

\* A connection ends.
Disconnect ==
    /\ ~proc.exited
    /\ proc.connections > 0
    /\ proc' = [proc EXCEPT !.connections = @ - 1]
    /\ UNCHANGED <<service, call, ret, loading, http, trace, inflight>>

\* The process receives SIGTERM or SIGINT and runs its handler.
Signal ==
    \E sig \in Signals :
        /\ ~proc.exited
        /\ SignalsReceived(proc) < MaxSignals
        /\ proc' = OnSignal(proc, sig)
        /\ UNCHANGED <<service, call, ret, loading, http, trace, inflight>>

\* The server, told to close, has no connection left: it is closed and its
\* 'close' event is queued.
Drained ==
    /\ ~proc.exited
    /\ proc.server = "closing"
    /\ proc.connections = 0
    /\ proc' = [proc EXCEPT !.server = "closed"]
    /\ UNCHANGED <<service, call, ret, loading, http, trace, inflight>>

\* The 'close' event is emitted: the first registered callback runs and
\* ends the process.
EmitClose ==
    /\ ~proc.exited
    /\ proc.server = "closed"
    /\ proc.listeners > 0
    /\ proc' = OnClose(proc)
    /\ UNCHANGED <<service, call, ret, loading, http, trace, inflight>>

NextShutdown == Connect \/ Disconnect \/ Signal \/ Drained \/ EmitClose

\* The next-tick queue is always run: a queued 'close' event is emitted.
SpecShutdown == InitShutdown /\ [][NextShutdown]_vars /\ WF_vars(EmitClose)

(***************************************************************************)
(* The earlier version of FacilityService: a name index that also holds    *)
(* the prefixes (of two characters or more) of every word, and a filter    *)
(* that scans the records.  It is built from the same data file; its       *)
(* facilityIndex is filled as in the current version.                      *)
(***************************************************************************)
\* tokens.push(word); for (let i = 2; i <= word.length; i++)
\*   tokens.push(word.substring(0, i))
EarlierWordTokens(word) ==
    <<word>> \o (IF Len(word) < 2 THEN <<>>
                 ELSE [k \in 1..(Len(word) - 1) |-> SubSeq(word, 1, k + 1)])

\* tokenizeName of the earlier version: the words are not filtered, so a
\* name with leading or trailing whitespace yields the empty word.
EarlierTokenizeName(name) ==
    LET normalized == ToLowerCase(name)
        words == SplitWs(normalized)
    IN  Concat([i \in DOMAIN words |-> EarlierWordTokens(words[i])])

RECURSIVE EarlierBuildIndexes(_, _)
EarlierBuildIndexes(fs, idx) ==
    IF fs = <<>> THEN idx
    ELSE LET facility == Head(fs)
         IN  EarlierBuildIndexes(Tail(fs),
                [facilityIndex |-> MapSet(idx.facilityIndex, facility.id, facility),
                 nameIndex |-> IndexTokens(idx.nameIndex,
                                           EarlierTokenizeName(facility.name),
                                           facility.id)])

\* The indexes of the earlier version after its constructor.
EarlierIndexes ==
    EarlierBuildIndexes(facilities, [facilityIndex |-> <<>>, nameIndex |-> <<>>])

RECURSIVE EarlierScan(_, _, _)
\* for (const [indexedToken, facilityIds] of this.nameIndex.entries())
\*   if (indexedToken.startsWith(token)) facilityIds.forEach(add)
EarlierScan(matchingIds, entries, token) ==
    IF entries = <<>> THEN matchingIds
    ELSE EarlierScan(IF StartsWith(Head(entries).key, token)
                     THEN SetAddAll(matchingIds, Head(entries).val)
                     ELSE matchingIds,
                     Tail(entries), token)

RECURSIVE EarlierMatchTokens(_, _, _)
EarlierMatchTokens(matchingIds, queryTokens, index) ==
    IF queryTokens = <<>> THEN matchingIds
    ELSE EarlierMatchTokens(EarlierScan(matchingIds, index, Head(queryTokens)),
                            Tail(queryTokens), index)

EarlierSearchByName(query, impl) ==
    IF query = <<>> \/ Len(Trim(query)) = 0 THEN <<>>
    ELSE LET normalizedQuery == NormalizeQuery(query)
             queryTokens == SplitWs(normalizedQuery)
             matchingIds == EarlierMatchTokens(<<>>, queryTokens,
                                               EarlierIndexes.nameIndex)
             results == ToResults(matchingIds, EarlierIndexes.facilityIndex)
         IN  Sort(results, impl, normalizedQuery)

\* return this.facilityIndex.get(id) || null
EarlierGetById(id) ==
    IF MapHas(EarlierIndexes.facilityIndex, id)
    THEN Found(MapGet(EarlierIndexes.facilityIndex, id))
    ELSE Null

\* this.facilities.filter(facility => normalizedAmenities.every(amenity =>
\*   facilityAmenities.includes(amenity))).map(projection)
EarlierFilterByAmenities(amenities) ==
    IF Len(amenities) = 0 THEN <<>>
    ELSE LET normalizedAmenities ==
                 [i \in DOMAIN amenities |-> ToLowerCase(amenities[i])]
             Has(facility) ==
                 LET facilityAmenities ==
                         [i \in DOMAIN facility.facilities |->
                             ToLowerCase(facility.facilities[i])]
                 IN  \A i \in DOMAIN normalizedAmenities :
                         Contains(facilityAmenities, normalizedAmenities[i])
             results == SelectSeq(facilities, Has)
         IN  [i \in DOMAIN results |-> Projection(results[i])]

(***************************************************************************)
(* Vocabulary of the properties.                                           *)
(***************************************************************************)
Records == Range(facilities)

Returned == IF ret.kind = "list" THEN ret.value ELSE <<>>

ReturnedIds == {Returned[i].id : i \in DOMAIN Returned}

IsPrefix(p, t) == \E k \in 0..Len(t) : p = SubSeq(t, 1, k)

\* The words of a string: its maximal runs of non-whitespace characters,
\* in lower case.
WordsOf(str) ==
    LET l == ToLowerCase(str)
    IN  { SubSeq(l, i, j) : <<i, j>> \in
            { w \in (DOMAIN l) \X (DOMAIN l) :
                /\ w[1] <= w[2]
                /\ \A k \in w[1]..w[2] : l[k] # " "
                /\ (w[1] = 1 \/ l[w[1] - 1] = " ")
                /\ (w[2] = Len(l) \/ l[w[2] + 1] = " ") } }

\* Some word of the query is a prefix of some word of the name.
NameMatches(name, query) ==
    \E qt \in WordsOf(query) : \E t \in WordsOf(name) : IsPrefix(qt, t)

(***************************************************************************)
(* C1  Prefix correctness: for every record of the store, every token t of *)
(* its name and every non-empty prefix p of t, searchByName(p) returns the *)
(* record's identifier.                                                    *)
(***************************************************************************)
PrefixCorrectness ==
    call.op = "searchByName" =>
        \A r \in Records : \A t \in WordsOf(r.name) : \A k \in 1..Len(t) :
            call.arg = SubSeq(t, 1, k) => r.id \in ReturnedIds

\* searchByName has answered a proper prefix of a token with the record.
PrefixCorrectnessWitness ==
    /\ call.op = "searchByName"
    /\ \E r \in Records : \E t \in WordsOf(r.name) : \E k \in 1..(Len(t) - 1) :
            /\ call.arg = SubSeq(t, 1, k)
            /\ r.id \in ReturnedIds

(***************************************************************************)
(* C2  The match set of searchByName is the OR across the query tokens: a  *)
(* record is returned if and only if at least one query token is a prefix  *)
(* of at least one token of its name; a query none of whose tokens is a    *)
(* prefix of an indexed token returns the empty list.                      *)
(***************************************************************************)
MatchSetIsOrAcrossTokens ==
    call.op = "searchByName" =>
        /\ ret.kind = "list"
        /\ \A r \in Records : r.id \in ReturnedIds <=> NameMatches(r.name, call.arg)
        /\ ReturnedIds \subseteq {r.id : r \in Records}

\* A two-token query has returned a record that only its second token
\* matches.
MatchSetIsOrAcrossTokensWitness ==
    /\ call.op = "searchByName"
    /\ Cardinality(WordsOf(call.arg)) = 2
    /\ \E r \in Records :
            /\ r.id \in ReturnedIds
            /\ ~IsPrefix(NonEmptyOnly(SplitWs(Trim(ToLowerCase(call.arg))))[1],
                         CHOOSE t \in WordsOf(r.name) : TRUE)
            /\ Cardinality(WordsOf(r.name)) = 1

(***************************************************************************)
(* Ranking vocabulary: the tier of a returned record for the query being   *)
(* answered, and the order of identifiers.                                 *)
(***************************************************************************)
NormalizedQuery == Trim(ToLowerCase(call.arg))

Tier(name) ==
    IF ToLowerCase(name) = NormalizedQuery THEN 1
    ELSE IF IsPrefix(NormalizedQuery, ToLowerCase(name)) THEN 2
    ELSE 3

CodeUnit(c) == CASE c = "w" -> 119 [] c = "x" -> 120 [] c = "y" -> 121 [] c = "z" -> 122
                 [] OTHER -> 32

IdBefore(a, b) ==
    LexCmp([i \in DOMAIN a |-> CodeUnit(a[i])], [i \in DOMAIN b |-> CodeUnit(b[i])]) < 0

(***************************************************************************)
(* C3  Three-tier ranking: in the list returned by searchByName every      *)
(* record whose lower-case name equals the normalized query precedes every *)
(* record whose name only starts with it, which precedes every other       *)
(* match; within each tier the records are in ascending order of display   *)
(* name.                                                                   *)
(***************************************************************************)
ThreeTierRanking ==
    call.op = "searchByName" =>
        \A i, j \in DOMAIN Returned :
            i < j =>
                /\ Tier(Returned[i].name) <= Tier(Returned[j].name)
                /\ Tier(Returned[i].name) = Tier(Returned[j].name)
                      => LocaleCompare(Returned[i].name, Returned[j].name) <= 0

(***************************************************************************)
(* C4  Ties are broken by identifier: two returned records of the same     *)
(* tier and the same display name appear in ascending identifier order.    *)
(***************************************************************************)
TiesBrokenByIdentifier ==
    call.op = "searchByName" =>
        \A i, j \in DOMAIN Returned :
            ( /\ i < j
              /\ Tier(Returned[i].name) = Tier(Returned[j].name)
              /\ Returned[i].name = Returned[j].name )
            => IdBefore(Returned[i].id, Returned[j].id)

(***************************************************************************)
(* C5  Empty-input handling: searchByName on an empty or whitespace-only   *)
(* query and filterByAmenities on an empty label list return the empty     *)
(* list, whatever the indexes hold.                                        *)
(***************************************************************************)
EmptyInputHandling ==
    /\ ( /\ call.op = "searchByName"
         /\ \A i \in DOMAIN call.arg : call.arg[i] = " " )
       => ret = List(<<>>)
    /\ (call.op = "filterByAmenities" /\ call.arg = <<>>) => ret = List(<<>>)

\* A whitespace-only query has been answered over a store that is not empty.
EmptyInputHandlingWitness ==
    /\ call.op = "searchByName"
    /\ Len(call.arg) >= 2
    /\ \A i \in DOMAIN call.arg : call.arg[i] = " "
    /\ nameIndex # <<>>
    /\ ret = List(<<>>)

(***************************************************************************)
(* C6  Case insensitivity of name search: every re-casing of the query     *)
(* returns the identical list, and a record is matched whatever the letter *)
(* case of its stored name.  All re-casings of a query share one           *)
(* lower-case form and each of them is the query of some call, so they     *)
(* return the identical list exactly when every query returns the list of  *)
(* its lower-case form.                                                    *)
(***************************************************************************)
CaseInsensitiveSearch ==
    call.op = "searchByName" =>
        /\ \A impl \in SortImpls :
              Returned = searchByName(call.arg, impl)
                  => searchByName(ToLowerCase(call.arg), impl) = Returned
        /\ \A r \in Records :
              NameMatches(ToLowerCase(r.name), ToLowerCase(call.arg))
                  => r.id \in ReturnedIds

\* A query with an upper-case letter has returned a record stored in lower
\* case together with a record stored in upper case.
CaseInsensitiveSearchWitness ==
    /\ call.op = "searchByName"
    /\ \E i \in DOMAIN call.arg : call.arg[i] \in UpperCase
    /\ \E r \in Records : r.id \in ReturnedIds /\ r.name = ToLowerCase(r.name)
    /\ \E r \in Records : r.id \in ReturnedIds /\ r.name # ToLowerCase(r.name)

(***************************************************************************)
(* Amenity vocabulary.                                                     *)
(***************************************************************************)
\* The record lists the label, ignoring letter case.
HasAmenity(r, label) ==
    \E i \in DOMAIN r.facilities : ToLowerCase(r.facilities[i]) = ToLowerCase(label)

\* The record lists the label, ignoring letter case and surrounding whitespace.
HasAmenityCanonical(r, label) ==
    \E i \in DOMAIN r.facilities :
        Trim(ToLowerCase(r.facilities[i])) = Trim(ToLowerCase(label))

IdsOf(results) == {results[i].id : i \in DOMAIN results}

(***************************************************************************)
(* C7  Amenity conjunction: for a non-empty label list, filterByAmenities  *)
(* returns exactly the records whose amenity list contains every label,    *)
(* ignoring letter case, each once; a label that no record lists makes the *)
(* result empty.                                                           *)
(***************************************************************************)
AmenityConjunction ==
    (call.op = "filterByAmenities" /\ call.arg # <<>>) =>
        /\ ret.kind = "list"
        /\ ReturnedIds =
              {r.id : r \in {x \in Records :
                                \A k \in DOMAIN call.arg : HasAmenity(x, call.arg[k])}}
        /\ Len(Returned) = Cardinality(ReturnedIds)
        /\ (\E k \in DOMAIN call.arg : \A r \in Records : ~HasAmenity(r, call.arg[k]))
              => Returned = <<>>

\* A list of two different labels has returned a record that lists both and
\* left out a record that lists only the first.
AmenityConjunctionWitness ==
    /\ call.op = "filterByAmenities"
    /\ Len(call.arg) = 2
    /\ ToLowerCase(call.arg[1]) # ToLowerCase(call.arg[2])
    /\ ReturnedIds # {}
    /\ \E r \in Records :
          /\ HasAmenity(r, call.arg[1])
          /\ ~HasAmenity(r, call.arg[2])
          /\ r.id \notin ReturnedIds

(***************************************************************************)
(* C8  Amenity conjunction correctness: the identifiers returned for the   *)
(* labels [a, b] are the intersection of those returned for [a] and those  *)
(* returned for [b].                                                       *)
(***************************************************************************)
PairIsIntersection ==
    (call.op = "filterByAmenities" /\ Len(call.arg) = 2) =>
        ReturnedIds = IdsOf(filterByAmenities(<<call.arg[1]>>))
                        \cap IdsOf(filterByAmenities(<<call.arg[2]>>))

\* The pair has returned fewer records than its first label alone, and not
\* none.
PairIsIntersectionWitness ==
    /\ call.op = "filterByAmenities"
    /\ Len(call.arg) = 2
    /\ ReturnedIds # {}
    /\ ReturnedIds # IdsOf(filterByAmenities(<<call.arg[1]>>))

(***************************************************************************)
(* C9  Amenity labels are normalized for letter case and for leading and   *)
(* trailing whitespace, in the stored records and in the query: a single   *)
(* label selects the records that list a label equal to it after           *)
(* lower-casing and trimming both.                                         *)
(***************************************************************************)
AmenityLabelsNormalized ==
    (call.op = "filterByAmenities" /\ Len(call.arg) = 1) =>
        ReturnedIds = {r.id : r \in {x \in Records : HasAmenityCanonical(x, call.arg[1])}}

(***************************************************************************)
(* C10  Miss handling: getById on the empty identifier or on an identifier *)
(* that no record of the store has returns null; on an identifier of the   *)
(* store it returns the full record with that identifier.                  *)
(***************************************************************************)
MissHandling ==
    call.op = "getById" =>
        IF call.arg = <<>> \/ \A r \in Records : r.id # call.arg
        THEN ret = Null
        ELSE /\ ret.kind = "facility"
             /\ ret.value.id = call.arg
             /\ ret.value \in Records
             /\ DOMAIN ret.value = {"id", "name", "address", "location", "facilities"}

\* An identifier of a store of two records has returned its record.
MissHandlingWitness ==
    /\ call.op = "getById"
    /\ Len(facilities) = 2
    /\ ret.kind = "facility"
    /\ ret.value = facilities[2]

(***************************************************************************)
(* C11: getById trims its input identifier: for an identifier surrounded   *)
(* by leading or trailing white space whose trimmed form is present in the *)
(* store, getById returns the full record stored under the trimmed         *)
(* identifier (what getById of the bare identifier returns), and a         *)
(* white-space-only identifier yields not-found.                           *)
(***************************************************************************)
GetByIdTrimsIdentifier ==
    call.op = "getById" =>
        IF \E r \in Records : r.id = Trim(call.arg)
        THEN /\ ret.kind = "facility"
             /\ ret.value \in Records
             /\ ret.value.id = Trim(call.arg)
        ELSE ret = Null


(***************************************************************************)
(* C12: queries are pure reads: no step of searchByName, filterByAmenities,*)
(* getById or getCount, in any sequence, changes the record sequence, the  *)
(* id map, the name index or any amenity posting set; every query          *)
(* therefore runs on the indexes as built, whatever ran before it.         *)
(***************************************************************************)
QueriesArePureReads ==
    [][/\ facilities' = facilities
       /\ facilityIndex' = facilityIndex
       /\ nameIndex' = nameIndex
       /\ amenityIndex' = amenityIndex]_vars

\* A filter on two labels has dropped a candidate of the first label, and the
\* posting set of the first label still holds it.
QueriesArePureReadsWitness ==
    /\ call.op = "filterByAmenities"
    /\ Len(call.arg) = 2
    /\ MapHas(amenityIndex, ToLowerCase(call.arg[1]))
    /\ MapHas(amenityIndex, ToLowerCase(call.arg[2]))
    /\ Len(Returned) > 0
    /\ Len(Returned) < Len(MapGet(amenityIndex, ToLowerCase(call.arg[1])))

(***************************************************************************)
(* C13: atomic publication of the index: the binding through which queries *)
(* reach the service is initialised in one step after the build has        *)
(* completed, so whenever a query is answered the three indexes are the    *)
(* complete indexes of the record array; no record is in the id map        *)
(* without being in the name index and the amenity index as well.          *)
(***************************************************************************)
IndexedEverywhere(r) ==
    /\ MapHas(facilityIndex, r.id)
    /\ \A t \in Range(tokenizeName(r.name)) :
           MapHas(nameIndex, t) /\ Contains(MapGet(nameIndex, t), r.id)
    /\ \A i \in DOMAIN r.facilities :
           /\ MapHas(amenityIndex, ToLowerCase(r.facilities[i]))
           /\ Contains(MapGet(amenityIndex, ToLowerCase(r.facilities[i])), r.id)

NoPartialIndexObserved ==
    call # Idle =>
        /\ exported
        /\ ctor = Constructed(facilities)
        /\ <<facilityIndex, nameIndex, amenityIndex>> =
               LET built == buildIndexes(facilities, EmptyIndexes)
               IN  <<built.facilityIndex, built.nameIndex, built.amenityIndex>>
        /\ \A r \in Records : IndexedEverywhere(r)

\* A query is answered by a service whose two records went through the loop.
NoPartialIndexObservedWitness ==
    /\ call.op = "searchByName"
    /\ Len(Returned) = 2
    /\ Len(facilities) = 2
    /\ exported

\* During the build a record is in the id map and not yet in the name index.
PartialIndexWitness ==
    /\ ~exported
    /\ \E r \in Records : MapHas(facilityIndex, r.id) /\ ~IndexedEverywhere(r)

(***************************************************************************)
(* C14: build-time validation: a candidate is admitted only if its         *)
(* identifier and its name are non-empty and its latitude and longitude    *)
(* are in range; an invalid candidate is dropped, is in no index, is       *)
(* returned by no query and by no getById, and is not counted as admitted. *)
(***************************************************************************)
ValidCandidate(r) ==
    /\ r.id # <<>>
    /\ r.name # <<>>
    /\ r.location.latitude \in -90..90
    /\ r.location.longitude \in -180..180

InvalidCandidatesDropped ==
    call # Idle =>
        /\ \A i \in DOMAIN facilityIndex : ValidCandidate(facilityIndex[i].val)
        /\ call.op = "getById" /\ ret.kind = "facility" => ValidCandidate(ret.value)
        /\ \A i \in DOMAIN Returned :
               \E r \in Records : ValidCandidate(r) /\ Projection(r) = Returned[i]
        /\ call.op = "getCount" =>
               ret.value <= Cardinality({i \in DOMAIN facilities :
                                            ValidCandidate(facilities[i])})

(***************************************************************************)
(* C15: identifier uniqueness: a candidate whose identifier was already    *)
(* admitted is skipped and never overwrites the first, so getById returns  *)
(* the first record with the identifier, getCount counts each identifier   *)
(* once, and every search or filter result carries the first record's      *)
(* name and address.                                                       *)
(***************************************************************************)
FirstWithId(id) ==
    LET first == CHOOSE i \in DOMAIN facilities :
                     /\ facilities[i].id = id
                     /\ \A j \in 1..(i - 1) : facilities[j].id # id
    IN  facilities[first]

DuplicatesSkipped ==
    /\ call.op = "getById" /\ ret.kind = "facility" =>
           ret.value = FirstWithId(call.arg)
    /\ call.op = "getCount" =>
           ret.value = Cardinality({facilities[i].id : i \in DOMAIN facilities})
    /\ \A i \in DOMAIN Returned :
           Returned[i] = Projection(FirstWithId(Returned[i].id))

(***************************************************************************)
(* C17: tokenization strips punctuation: names and queries are split at    *)
(* punctuation as well as at white space, so a query token that is a       *)
(* prefix of the part of a name after a punctuation mark returns that      *)
(* record.                                                                 *)
(***************************************************************************)
Punctuation == {"'"}

\* The string with every punctuation mark replaced by one space.
StripPunctuation(str) ==
    [i \in DOMAIN str |-> IF str[i] \in Punctuation THEN " " ELSE str[i]]

PunctuationSeparatesTokens ==
    call.op = "searchByName" =>
        \A r \in Records :
            NameMatches(StripPunctuation(r.name), StripPunctuation(call.arg))
                => r.id \in ReturnedIds

(***************************************************************************)
(* Router vocabulary: the request that has been answered.                  *)
(***************************************************************************)
Answered(route) == http.stage = "responded" /\ http.req.route = route

\* The parameter was given once, as a string of 1..MaxQueryChars characters.
OneStringInRange(values) ==
    Len(values) = 1 /\ Len(values[1]) \in 1..MaxQueryChars

\* The comma-separated parameter holds a label that is not blank.
HasLabel(values) ==
    /\ Len(values) = 1
    /\ \E i \in DOMAIN Split(values[1], ",") : Trim(Split(values[1], ",")[i]) # <<>>

CallsOf(op) == SelectSeq(http.calls, LAMBDA c : c.op = op)

\* The request carries one Authorization header, "Bearer " followed by a
\* token whose payload segment decodes.
Authentic(values) ==
    /\ Len(values) = 1
    /\ StartsWith(values[1], Bearer)
    /\ LET segments == Split(SubSeq(values[1], Len(Bearer) + 1, Len(values[1])), ".")
       IN  Len(segments) >= 2 /\ Decodes(segments[2])

(***************************************************************************)
(* C18: combined query: GET /search with q and a non-empty amenity list    *)
(* answers with exactly the records of searchByName(q) whose identifier is *)
(* in filterByAmenities(list), in the ranking order of searchByName, and   *)
(* the reported count is the number of returned results.                   *)
(***************************************************************************)
CombinedQuery ==
    ( /\ Answered("search")
      /\ Authentic(http.req.authorization)
      /\ OneStringInRange(http.req.q)
      /\ HasLabel(http.req.amenities) )
    => /\ http.status = 200
       /\ Len(CallsOf("filterByAmenities")) = 1
       /\ LET list == CallsOf("filterByAmenities")[1].arg
              kept == IdsOf(filterByAmenities(list))
          IN  /\ list # <<>>
              /\ \E impl \in SortImpls :
                     http.body.results =
                         SelectSeq(searchByName(http.req.q[1], impl),
                                   LAMBDA r : r.id \in kept)
       /\ http.body.count = Len(http.body.results)

\* The amenity list has removed one of two name matches, or has kept two
\* name matches whose ranking order is not their order in the store.
CombinedQueryWitness ==
    /\ Answered("search")
    /\ HasLabel(http.req.amenities)
    /\ http.status = 200
    /\ http.body.count = 2
    /\ http.body.results[1].id = IdSeq[2]
    /\ http.body.results[2].id = IdSeq[1]

(***************************************************************************)
(* C19: authentication gate: on every facility route a request without an  *)
(* Authorization header, with a header that does not start with "Bearer ", *)
(* with an empty token or with a token that fails verification is answered *)
(* 401 and no operation of the facility service is invoked for it; a       *)
(* handler runs only after the verification of the token has succeeded.    *)
(***************************************************************************)
GateClosed ==
    (http.stage # "none" /\ ~Authentic(http.req.authorization))
    => /\ http.calls = <<>>
       /\ http.stage # "handler"
       /\ http.stage = "responded" => http.status = 401

GateOpen ==
    (http.stage # "none" /\ (http.stage = "handler" \/ http.calls # <<>>))
    => /\ Authentic(http.req.authorization)
       /\ http.user # <<>>
       /\ http.status # 401

\* A handler is entered from the settled verification and from nowhere else.
HandlerAfterVerification ==
    (http'.stage = "handler" /\ http.stage # "handler")
    => /\ http.stage = "verifyToken"
       /\ verifyToken(RemoveBearer(http.req.authorization[1])).ok

AuthenticationGate ==
    [](GateClosed /\ GateOpen) /\ [][HandlerAfterVerification]_vars

\* A token that does not verify has been answered 401 on the detail route
\* after the verification settled.
AuthenticationGateWitness ==
    /\ Answered("detail")
    /\ http.status = 401
    /\ http.body = [error |-> "Invalid token"]
    /\ http.calls = <<>>
    /\ MapHas(facilityIndex, http.req.id)

(***************************************************************************)
(* C20 as stated: for an authenticated request the search route answers    *)
(* 400, without calling searchByName, when q is missing, empty or longer   *)
(* than 100 characters, and 200 otherwise; the detail route answers 404    *)
(* exactly when getById returns not-found and 200 with the full record     *)
(* otherwise.                                                              *)
(***************************************************************************)
\* q is missing, empty, or longer than MaxQueryChars characters.
QMissingEmptyOrLong(values) ==
    \/ values = <<>>
    \/ Len(values) = 1 /\ (Len(values[1]) = 0 \/ Len(values[1]) > MaxQueryChars)

DetailStatusMapping ==
    (Answered("detail") /\ Authentic(http.req.authorization))
    => /\ http.calls = <<[op |-> "getById", arg |-> http.req.id]>>
       /\ http.status = 404 <=> getById(http.req.id) = Null
       /\ http.status # 404 =>
              /\ http.status = 200
              /\ http.body \in Records
              /\ http.body = getById(http.req.id).value

StatusMappingAsStated ==
    /\ (Answered("search") /\ Authentic(http.req.authorization))
       => IF QMissingEmptyOrLong(http.req.q)
          THEN http.status = 400 /\ CallsOf("searchByName") = <<>>
          ELSE Len(http.req.q) = 1 => http.status = 200
    /\ DetailStatusMapping

(***************************************************************************)
(* C20 amended: the search route answers 400, without calling              *)
(* searchByName, exactly when q is not one string of 1 to 100 characters   *)
(* or the amenities parameter is given more than once, and 200 otherwise   *)
(* (an empty result included); the detail route is as stated.              *)
(***************************************************************************)
StatusMapping ==
    /\ (Answered("search") /\ Authentic(http.req.authorization))
       => IF ~OneStringInRange(http.req.q) \/ Len(http.req.amenities) > 1
          THEN http.status = 400 /\ http.calls = <<>>
          ELSE /\ http.status = 200
               /\ CallsOf("searchByName") =
                      <<[op |-> "searchByName", arg |-> http.req.q[1]]>>
    /\ DetailStatusMapping

\* A query of exactly MaxQueryChars characters has been answered 200 with an
\* empty result.
StatusMappingWitness ==
    /\ Answered("search")
    /\ Len(http.req.q) = 1
    /\ Len(http.req.q[1]) = MaxQueryChars
    /\ http.status = 200
    /\ http.body.count = 0
    /\ facilities # <<>>

(***************************************************************************)
(* C21: the amenity intersection never mutates a set while iterating it:   *)
(* between the start and the end of an iteration over a set no entry is    *)
(* deleted from that set.                                                  *)
(***************************************************************************)
\* Access j falls inside an iteration over the collection it is on.
InsideIteration(j) ==
    \E i \in 1..(j - 1) :
        /\ trace[i].ev = "iterate"
        /\ trace[i].on = trace[j].on
        /\ \A k \in (i + 1)..(j - 1) :
               ~(trace[k].ev = "done" /\ trace[k].on = trace[j].on)

NoMutationWhileIterating ==
    \A j \in DOMAIN trace : trace[j].ev = "delete" => ~InsideIteration(j)

(***************************************************************************)
(* C22: the amenity intersection processes labels smallest posting set     *)
(* first: the first label fetched has the smallest posting set of the      *)
(* list, and the labels are fetched in non-decreasing order of posting-set *)
(* size, whatever the order of the caller's list.                          *)
(***************************************************************************)
PostingSize(label) ==
    IF MapHas(amenityIndex, label) THEN Len(MapGet(amenityIndex, label)) ELSE 0

\* The labels fetched from the amenity index, in order.
LabelsFetched ==
    LET gets == SelectSeq(trace, LAMBDA a : a.ev = "get" /\ a.on = "amenityIndex")
    IN  [i \in DOMAIN gets |-> gets[i].key]

SmallestPostingSetFirst ==
    call.op = "filterByAmenities" =>
        /\ \A i \in DOMAIN call.arg :
               LabelsFetched # <<>>
               /\ PostingSize(LabelsFetched[1]) <= PostingSize(ToLowerCase(call.arg[i]))
        /\ \A i, j \in DOMAIN LabelsFetched :
               i < j => PostingSize(LabelsFetched[i]) <= PostingSize(LabelsFetched[j])

(***************************************************************************)
(* C23: no-scan invariant: answering one query token examines a number of  *)
(* index entries bounded by the token's length (one per character and the  *)
(* root), however many distinct tokens the index holds; the lookup does    *)
(* not go through the whole vocabulary.                                    *)
(***************************************************************************)
\* The accesses to the name index made for the n-th query token: from its
\* exact lookup to the next one.
ExaminedFor(n) ==
    LET gets == {i \in DOMAIN trace : trace[i].ev = "get" /\ trace[i].on = "nameIndex"}
        start == CHOOSE i \in gets : Cardinality({j \in gets : j < i}) = n - 1
    IN  {k \in DOMAIN trace :
            /\ k > start
            /\ trace[k].ev = "examine"
            /\ \A j \in gets : j > start => k < j}

NoScan ==
    call.op = "searchByName" =>
        \A n \in 1..Cardinality({i \in DOMAIN trace : trace[i].ev = "get"}) :
            LET queryToken == NonEmptyOnly(SplitWs(Trim(ToLowerCase(call.arg))))[n]
            IN  Cardinality(ExaminedFor(n)) <= Len(queryToken) + 1

(***************************************************************************)
(* C24  Index consistency after build: the keys of nameIndex are exactly   *)
(* the words of the records' names in lower case and nameIndex[t] is       *)
(* exactly the identifiers of the records whose name has the word t; the   *)
(* keys of amenityIndex are exactly the records' labels in lower case and  *)
(* amenityIndex[a] is exactly the identifiers of the records listing a,    *)
(* ignoring case; no posting set is empty, no key or identifier is held    *)
(* twice, and every identifier of a posting set is a key of the id map.    *)
(***************************************************************************)
Keys(index) == {index[i].key : i \in DOMAIN index}

NoRepeat(seq) == \A i, j \in DOMAIN seq : seq[i] = seq[j] => i = j

PostingsWellFormed(index) ==
    /\ NoRepeat([i \in DOMAIN index |-> index[i].key])
    /\ \A i \in DOMAIN index :
           /\ index[i].val # <<>>
           /\ NoRepeat(index[i].val)
           /\ \A id \in Range(index[i].val) : id \in Keys(facilityIndex)

IndexConsistency ==
    ctor = Constructed(facilities) =>
        /\ Keys(nameIndex) = UNION {WordsOf(r.name) : r \in Records}
        /\ \A i \in DOMAIN nameIndex :
               Range(nameIndex[i].val) =
                   {r.id : r \in {s \in Records : nameIndex[i].key \in WordsOf(s.name)}}
        /\ Keys(amenityIndex) =
               UNION {{ToLowerCase(l) : l \in Range(r.facilities)} : r \in Records}
        /\ \A i \in DOMAIN amenityIndex :
               Range(amenityIndex[i].val) =
                   {r.id : r \in {s \in Records : HasAmenity(s, amenityIndex[i].key)}}
        /\ PostingsWellFormed(nameIndex)
        /\ PostingsWellFormed(amenityIndex)

\* A built index in which one word and one label, the label written in two
\* cases, are shared by two records.
IndexConsistencyWitness ==
    /\ ctor = Constructed(facilities)
    /\ exported
    /\ \E i \in DOMAIN nameIndex : Len(nameIndex[i].val) = 2
    /\ \E i \in DOMAIN amenityIndex :
           /\ Len(amenityIndex[i].val) = 2
           /\ \E r \in Records : amenityIndex[i].key \notin Range(r.facilities)
                                 /\ HasAmenity(r, amenityIndex[i].key)

(***************************************************************************)
(* C25  Result well-formedness: in every result of searchByName and of     *)
(* filterByAmenities each identifier appears at most once, also when       *)
(* several query tokens or several words of a name match the same record,  *)
(* and the name and address of each element are those of the record that   *)
(* getById returns for its identifier.                                     *)
(***************************************************************************)
ResultWellFormed ==
    call.op \in {"searchByName", "filterByAmenities"} =>
        /\ NoRepeat([i \in DOMAIN Returned |-> Returned[i].id])
        /\ \A i \in DOMAIN Returned :
               LET found == getById(Returned[i].id)
               IN  /\ found.kind = "facility"
                   /\ Returned[i].name = found.value.name
                   /\ Returned[i].address = found.value.address

(***************************************************************************)
(* C26  The ranking comparator of searchByName is a consistent ordering:   *)
(* for any two results a and b of a search it never reports both a before  *)
(* b and b before a, and it reports a before b exactly when it reports b    *)
(* after a; in particular when both lower-case names equal the normalized   *)
(* query.                                                                  *)
(***************************************************************************)
Sign(n) == IF n < 0 THEN -1 ELSE IF n > 0 THEN 1 ELSE 0

ComparatorConsistent ==
    call.op = "searchByName" =>
        \A i, j \in DOMAIN Returned :
            i # j =>
                LET ab == Comparator(Returned[i], Returned[j], NormalizeQuery(call.arg))
                    ba == Comparator(Returned[j], Returned[i], NormalizeQuery(call.arg))
                IN  /\ ~(ab < 0 /\ ba < 0)
                    /\ Sign(ab) = -Sign(ba)

(***************************************************************************)
(* C27  authMiddleware produces exactly one outcome per request: it never  *)
(* produces more than one, and once it has returned it has either sent     *)
(* exactly one 401 response and not called next, or called next exactly    *)
(* once and sent no response itself; with several requests being verified  *)
(* at once, the user attached to a request that is passed on is the one    *)
(* its own token carries.                                                  *)
(***************************************************************************)
Outcomes(r) == Len(r.sent) + r.nexts

\* The user carried by the token of the request's own Authorization header.
OwnUser(r) ==
    PayloadUser(Split(SubSeq(r.authorization[1], Len(Bearer) + 1,
                             Len(r.authorization[1])), ".")[2])

ExactlyOneOutcome ==
    \A i \in DOMAIN inflight :
        LET r == inflight[i]
        IN  /\ Outcomes(r) <= 1
            /\ r.stage = "returned" => Outcomes(r) = 1
            /\ \A k \in DOMAIN r.sent : r.sent[k].status = 401
            /\ r.nexts = 1 => Authentic(r.authorization) /\ r.user = OwnUser(r)
            /\ (r.stage = "returned" /\ Authentic(r.authorization)) => r.nexts = 1

\* Two requests with tokens of different users were waiting for their
\* verification at once; that of the later request settled first and the
\* request was passed on with its own user, the earlier one still waits.
ExactlyOneOutcomeWitness ==
    /\ Len(inflight) = 2
    /\ inflight[1].stage = "verifyToken"
    /\ Authentic(inflight[1].authorization)
    /\ inflight[2].nexts = 1
    /\ inflight[2].user # OwnUser(inflight[1])

(***************************************************************************)
(* C28  The two versions of FacilityService are observationally            *)
(* equivalent: built from the same records with unique identifiers, the    *)
(* earlier version returns the same set of identifiers for every           *)
(* searchByName query and every filterByAmenities label list, and the same *)
(* value for every getById.                                                *)
(***************************************************************************)
UniqueIdentifiers ==
    \A i, j \in DOMAIN facilities : facilities[i].id = facilities[j].id => i = j

VersionsEquivalent ==
    UniqueIdentifiers =>
        /\ call.op = "searchByName" =>
               \A impl \in SortImpls :
                   ReturnedIds = IdsOf(EarlierSearchByName(call.arg, impl))
        /\ call.op = "filterByAmenities" =>
               ReturnedIds = IdsOf(EarlierFilterByAmenities(call.arg))
        /\ call.op = "getById" => ret = EarlierGetById(call.arg)

\* The same, for stores none of whose identifiers is empty.
VersionsEquivalentOnValidIds ==
    (\A i \in DOMAIN facilities : facilities[i].id # <<>>) => VersionsEquivalent

(***************************************************************************)
(* C29  Graceful shutdown ordering: the process exits, with code 0, only   *)
(* after a signal has arrived, the HTTP server has closed and its close    *)
(* callback has fired; it never exits while the server is listening or     *)
(* still has a connection; and once the server has closed the exit         *)
(* eventually happens.                                                     *)
(***************************************************************************)
CloseCallbackFired == Contains(proc.log, "HTTP server closed")

ExitOnlyAfterClose ==
    proc.exited =>
        /\ proc.code = 0
        /\ SignalsReceived(proc) >= 1
        /\ proc.server = "closed"
        /\ proc.connections = 0
        /\ CloseCallbackFired

ShutdownOrdering ==
    /\ []ExitOnlyAfterClose
    /\ (proc.server = "closed") ~> proc.exited

\* Both signals arrived while a connection was open once; the process has
\* exited after the close callback.
ShutdownOrderingWitness ==
    /\ proc.exited
    /\ proc.code = 0
    /\ proc.log = << "SIGTERM signal received: closing HTTP server",
                     "SIGINT signal received: closing HTTP server",
                     "HTTP server closed" >>

(***************************************************************************)
(* C30  Search route with a degenerate amenities parameter: when the       *)
(* parameter is absent, or holds no non-empty label after splitting on     *)
(* commas and trimming, an authenticated search with a valid q applies no  *)
(* amenity filter: filterByAmenities is not called and the response is the *)
(* full result of searchByName(q), not the empty result of                 *)
(* filterByAmenities([]).                                                  *)
(***************************************************************************)
\* The parameter is absent, or given once without a label that is not blank.
NoLabel(values) == values = <<>> \/ (Len(values) = 1 /\ ~HasLabel(values))

DegenerateAmenities ==
    ( /\ Answered("search")
      /\ Authentic(http.req.authorization)
      /\ OneStringInRange(http.req.q)
      /\ NoLabel(http.req.amenities) )
    => /\ http.status = 200
       /\ CallsOf("filterByAmenities") = <<>>
       /\ CallsOf("searchByName") = <<[op |-> "searchByName", arg |-> http.req.q[1]]>>
       /\ \E impl \in SortImpls : http.body.results = searchByName(http.req.q[1], impl)
       /\ http.body.count = Len(http.body.results)

\* A search with amenities=" , " was answered with a record of the store.
DegenerateAmenitiesWitness ==
    /\ Answered("search")
    /\ Authentic(http.req.authorization)
    /\ http.req.amenities = << <<" ", ",", " ">> >>
    /\ http.status = 200
    /\ http.body.results # <<>>

=============================================================================
